---- MODULE Spec2Model ----
(***************************************************************************)
(* Telnet video streaming server (src/app.js): one ffmpeg decoder at a     *)
(* time writes raw rgb24 frames to its stdout; the server cuts the byte    *)
(* stream into frames, renders every frame for every negotiated telnet     *)
(* client and advances a playlist when the decoder closes.                 *)
(*                                                                         *)
(* Buffers and strings are sequences of byte / character codes.  A JS      *)
(* `undefined` number is the value UNDEF.  Every handler of the event      *)
(* loop is one action: handlers run to completion.                         *)
(***************************************************************************)
EXTENDS Integers, Sequences, FiniteSets, TLC

\* ------------------------------------------------------------ bounds
MaxSpawn == 4       \* decoders spawned in a run of the model
MaxFrames == 2      \* frames' worth of bytes one decoder may emit
MaxIn == 2          \* data events delivered to one socket
PlaylistLen == 3    \* PLAYLIST.length
MaxCols == 10       \* widest window a client of the rendering specification reports
MaxRows == 4        \* tallest window a client of the rendering specification reports

\* ------------------------------------------------- program constants
MODE_DEFAULT == 2
BaseW == 1                          \* CFG.baseW (-w 1)
BaseH == 1                          \* CFG.baseH (-h 1)
DropIfBufferedOver == 15            \* CFG.dropIfBufferedOver, scaled down to the model's small frames
CharAspectNum == 2                  \* CFG.charAspect = 2.0
IAC == 255
SB == 250
SE == 240
NAWS == 31
DO == 253
ESC == 27
NL == 10
UNDEF == -1                         \* JS undefined (sock.cols before negotiation)

chars == <<32, 46, 58, 45, 61, 43, 42, 35, 37, 64>>    \* " .:-=+*#%@"
quitKeys == {113, 81}                                   \* "q", "Q"
toggleKeys == {109, 77}                                 \* "m", "M"

Sock == {1, 2}                      \* the connections the server accepts in a run of the model
bytesPerFrame == BaseW * BaseH * 3

\* ------------------------------------------------------- utilities
clampInt(n, lo, hi) == IF n < lo THEN lo ELSE IF n > hi THEN hi ELSE n

Min(a, b) == IF a < b THEN a ELSE b

\* " ".repeat(n)
Spaces(n) == [i \in 1..n |-> 32]

RECURSIVE Digits(_)
\* decimal digits of a non-negative integer, as `${n}` prints it
Digits(n) == IF n < 10 THEN <<48 + n>> ELSE Digits(n \div 10) \o <<48 + (n % 10)>>

\* mutant: no row is kept back (dstH = rows)
computeFitB_NoSafetyRow(cols, rows, bw, bh) ==
  LET dstW == clampInt(cols, 1, 10000)
      dstH == clampInt(rows, 1, 10000)
      maxWByH == (dstH * CharAspectNum * bw) \div bh
      outW == clampInt(Min(dstW, maxWByH), 1, dstW)
      outH == clampInt(Min(dstH, (outW * bh) \div (CharAspectNum * bw)), 1, dstH)
      padX == (dstW - outW) \div 2
      padY == (dstH - outH) \div 2
  IN [dstW |-> dstW, dstH |-> dstH, outW |-> outW, outH |-> outH,
      padX |-> padX, padY |-> padY]

\* mutant: the cell aspect is applied the wrong way round
computeFitB_AspectInverted(cols, rows, bw, bh) ==
  LET dstW == clampInt(cols, 1, 10000)
      dstH == clampInt(rows - 1, 1, 10000)
      maxWByH == (dstH * bw) \div (CharAspectNum * bh)
      outW == clampInt(Min(dstW, maxWByH), 1, dstW)
      outH == clampInt(Min(dstH, (outW * CharAspectNum * bh) \div bw), 1, dstH)
      padX == (dstW - outW) \div 2
      padY == (dstH - outH) \div 2
  IN [dstW |-> dstW, dstH |-> dstH, outW |-> outW, outH |-> outH,
      padX |-> padX, padY |-> padY]

\* computeFit(cols, rows) for base resolution bw x bh.  The code computes
\* targetHOverW = (bh/bw)/charAspect in floating point; for the resolutions
\* used here (bh/bw a dyadic fraction) the floors equal these integer ones.
computeFitB(cols, rows, bw, bh) ==
  LET dstW == clampInt(cols, 1, 10000)
      dstH == clampInt(rows - 1, 1, 10000)
      maxWByH == (dstH * CharAspectNum * bw) \div bh
      outW == clampInt(Min(dstW, maxWByH), 1, dstW)
      outH == clampInt(Min(dstH, (outW * bh) \div (CharAspectNum * bw)), 1, dstH)
      padX == (dstW - outW) \div 2
      padY == (dstH - outH) \div 2
  IN [dstW |-> dstW, dstH |-> dstH, outW |-> outW, outH |-> outH,
      padX |-> padX, padY |-> padY]

computeFit(cols, rows) == computeFitB(cols, rows, BaseW, BaseH)

\* LUT[v] = chars[floor(v * (chars.length - 1) / 255)]
LUT(v) == chars[((v * (Len(chars) - 1)) \div 255) + 1]

\* rgbToGray: gray[i] = (54 r + 183 g + 19 b) >> 8
rgbToGray(rgbFrame) ==
  [i \in 1..(BaseW * BaseH) |->
     (54 * rgbFrame[3 * (i - 1) + 1] + 183 * rgbFrame[3 * (i - 1) + 2]
        + 19 * rgbFrame[3 * (i - 1) + 3]) \div 256]

RECURSIVE Concat(_)
\* concatenation of a sequence of sequences
Concat(ss) == IF ss = <<>> THEN <<>> ELSE Head(ss) \o Concat(Tail(ss))

\* one content line of renderAscii, output row oy (0-based)
AsciiLine(grayFrame, fit, oy) ==
  LET sy == (oy * BaseH) \div fit.outH
      srcRow == sy * BaseW
      rightPad == fit.dstW - fit.padX - fit.outW
  IN Spaces(fit.padX)
       \o [k \in 1..fit.outW |->
             LUT(grayFrame[srcRow + (((k - 1) * BaseW) \div fit.outW) + 1])]
       \o (IF rightPad > 0 THEN Spaces(rightPad) ELSE <<>>)
       \o <<NL>>

renderAscii(grayFrame, cols, rows) ==
  LET fit == computeFit(cols, rows)
      blank == Spaces(fit.dstW) \o <<NL>>
      bottom == fit.dstH - fit.padY - fit.outH
  IN <<ESC, 91, 72>>
       \o Concat([y \in 1..fit.padY |-> blank])
       \o Concat([k \in 1..fit.outH |-> AsciiLine(grayFrame, fit, k - 1)])
       \o Concat([y \in 1..(IF bottom > 0 THEN bottom ELSE 0) |-> blank])

\* the pixel (r, g, b) sampled for output cell (ox, oy), 0-based
Pixel(rgbFrame, fit, ox, oy) ==
  LET sy == (oy * BaseH) \div fit.outH
      sx == (ox * BaseW) \div fit.outW
      i == (sy * BaseW + sx) * 3
  IN <<rgbFrame[i + 1], rgbFrame[i + 2], rgbFrame[i + 3]>>

\* one cell of a truecolor line: the colour escape only where the colour changes
TrueCell(rgbFrame, fit, ox, oy) ==
  LET p == Pixel(rgbFrame, fit, ox, oy)
      changed == IF ox = 0 THEN TRUE ELSE p # Pixel(rgbFrame, fit, ox - 1, oy)
  IN (IF changed
        THEN <<ESC, 91, 52, 56, 59, 50, 59>> \o Digits(p[1]) \o <<59>>
               \o Digits(p[2]) \o <<59>> \o Digits(p[3]) \o <<109>>
        ELSE <<>>)
       \o <<32>>

TrueLine(rgbFrame, fit, oy) ==
  LET rightPad == fit.dstW - fit.padX - fit.outW
  IN Spaces(fit.padX)
       \o Concat([k \in 1..fit.outW |-> TrueCell(rgbFrame, fit, k - 1, oy)])
       \o <<ESC, 91, 48, 109>>
       \o (IF rightPad > 0 THEN Spaces(rightPad) ELSE <<>>)
       \o <<NL>>

renderTruecolor(rgbFrame, cols, rows) ==
  LET fit == computeFit(cols, rows)
      blank == Spaces(fit.dstW) \o <<NL>>
      bottom == fit.dstH - fit.padY - fit.outH
  IN <<ESC, 91, 72>>
       \o Concat([y \in 1..fit.padY |-> blank])
       \o Concat([k \in 1..fit.outH |-> TrueLine(rgbFrame, fit, k - 1)])
       \o Concat([y \in 1..(IF bottom > 0 THEN bottom ELSE 0) |-> blank])

renderFrameForClient(rgbFrame, cols, rows, mode) ==
  IF mode = 2 THEN renderTruecolor(rgbFrame, cols, rows)
  ELSE renderAscii(rgbToGray(rgbFrame), cols, rows)

\* ------------------------------------------------- telnet input
\* data.readUInt16BE(off), off a 0-based offset into the buffer
readUInt16BE(data, off) == data[off + 1] * 256 + data[off + 2]

RECURSIVE parseNAWSFrom_NoTerminator(_, _, _)
\* mutant: the scan trusts a sequence without looking at its IAC SE terminator
parseNAWSFrom_NoTerminator(i, data, geo) ==
  IF ~(i + 8 < Len(data)) THEN geo
  ELSE IF data[i + 1] = IAC /\ data[i + 2] = SB /\ data[i + 3] = NAWS
    THEN LET w == readUInt16BE(data, i + 3)
             h == readUInt16BE(data, i + 5)
         IN parseNAWSFrom_NoTerminator(i + 1, data,
              IF w > 0 /\ h > 0 THEN [cols |-> w, rows |-> h] ELSE geo)
    ELSE parseNAWSFrom_NoTerminator(i + 1, data, geo)

RECURSIVE parseNAWSFrom_AnyDims(_, _, _)
\* mutant: the reported width and height are stored without the test w > 0 && h > 0
parseNAWSFrom_AnyDims(i, data, geo) ==
  IF ~(i + 8 < Len(data)) THEN geo
  ELSE IF data[i + 1] = IAC /\ data[i + 2] = SB /\ data[i + 3] = NAWS
    THEN IF data[i + 8] # IAC \/ data[i + 9] # SE
           THEN parseNAWSFrom_AnyDims(i + 1, data, geo)
           ELSE parseNAWSFrom_AnyDims(i + 1, data,
                  [cols |-> readUInt16BE(data, i + 3), rows |-> readUInt16BE(data, i + 5)])
    ELSE parseNAWSFrom_AnyDims(i + 1, data, geo)

RECURSIVE parseNAWSFrom(_, _, _)
\* the loop of parseNAWS from 0-based index i on; geo = [cols, rows] so far
parseNAWSFrom(i, data, geo) ==
  IF ~(i + 8 < Len(data)) THEN geo
  ELSE IF data[i + 1] = IAC /\ data[i + 2] = SB /\ data[i + 3] = NAWS
    THEN IF data[i + 8] # IAC \/ data[i + 9] # SE
           THEN parseNAWSFrom(i + 1, data, geo)
           ELSE LET w == readUInt16BE(data, i + 3)
                    h == readUInt16BE(data, i + 5)
                IN parseNAWSFrom(i + 1, data,
                     IF w > 0 /\ h > 0 THEN [cols |-> w, rows |-> h] ELSE geo)
    ELSE parseNAWSFrom(i + 1, data, geo)

\* parseNAWS(sock, data): the socket's [cols, rows] after the scan
parseNAWS(geo, data) == parseNAWSFrom(0, data, geo)

IsCont(b) == b >= 128 /\ b <= 191

\* Number of continuation bytes a UTF-8 lead byte announces (0: none, -1: invalid)
Utf8Need(b) ==
  IF b < 128 THEN 0
  ELSE IF b >= 194 /\ b <= 223 THEN 1
  ELSE IF b >= 224 /\ b <= 239 THEN 2
  ELSE IF b >= 240 /\ b <= 244 THEN 3
  ELSE -1

\* the range the first continuation byte must lie in, after lead byte b
Utf8FirstOk(b, c) ==
  IF b = 224 THEN c >= 160 /\ c <= 191
  ELSE IF b = 237 THEN c >= 128 /\ c <= 159
  ELSE IF b = 240 THEN c >= 144 /\ c <= 191
  ELSE IF b = 244 THEN c >= 128 /\ c <= 143
  ELSE IsCont(c)

RECURSIVE Utf8Decode(_)
\* Buffer.toString("utf8"): code points, U+FFFD (65533) for every maximal
\* invalid part; a byte that breaks a sequence is decoded again on its own
Utf8Decode(bs) ==
  IF bs = <<>> THEN <<>>
  ELSE LET b == Head(bs)
           need == Utf8Need(b)
           n == Len(bs)
       IN IF need = 0 THEN <<b>> \o Utf8Decode(Tail(bs))
          ELSE IF need = -1 THEN <<65533>> \o Utf8Decode(Tail(bs))
          ELSE IF n < 2 \/ ~Utf8FirstOk(b, bs[2])
                 THEN <<65533>> \o Utf8Decode(Tail(bs))
          ELSE IF need = 1
                 THEN <<(b - 192) * 64 + (bs[2] - 128)>> \o Utf8Decode(SubSeq(bs, 3, n))
          ELSE IF n < 3 \/ ~IsCont(bs[3])
                 THEN <<65533>> \o Utf8Decode(SubSeq(bs, 3, n))
          ELSE IF need = 2
                 THEN <<(b - 224) * 4096 + (bs[2] - 128) * 64 + (bs[3] - 128)>>
                        \o Utf8Decode(SubSeq(bs, 4, n))
          ELSE IF n < 4 \/ ~IsCont(bs[4])
                 THEN <<65533>> \o Utf8Decode(SubSeq(bs, 4, n))
          ELSE <<(b - 240) * 262144 + (bs[2] - 128) * 4096 + (bs[3] - 128) * 64
                   + (bs[4] - 128)>> \o Utf8Decode(SubSeq(bs, 5, n))

\* the bytes of data that are not IAC, in order
StripIAC(data) == SelectSeq(data, LAMBDA b : b # IAC)

textFromTelnet(data) == Utf8Decode(StripIAC(data))

\* text.includes(k) for a one-character key k
Includes(text, k) == \E i \in 1..Len(text) : text[i] = k

shouldQuit(data) == \E k \in quitKeys : Includes(textFromTelnet(data), k)

\* mutant: the toggle is skipped when the chunk also quits
shouldToggle_UnlessQuit(data) ==
  (\E k \in toggleKeys : Includes(textFromTelnet(data), k)) /\ ~shouldQuit(data)

\* the mode-toggle test of the socket data handler
shouldToggle(data) == \E k \in toggleKeys : Includes(textFromTelnet(data), k)

\* ------------------------------------------------------------ state
VARIABLES
  clients,       \* the Set `clients`, in insertion (= iteration) order
  socks,         \* per connection: st, cols, rows, mode, wlen (writableLength), out (write calls)
  rx,            \* history: the data events each socket has received, in order
  procs,         \* the decoders spawned so far: item played, state, exit code; ff is the last
  currentIndex,  \* playlist cursor
  leftover,      \* carry-over of the stdout data handler
  shuttingDown,
  switching,
  stream,        \* history: the bytes the current decoder has delivered on stdout
  frames,        \* history: the frames cut from the current decoder's stream
  passes,        \* history: the broadcast passes made by the handler that ran last
  errLog,        \* decoders (by spawn number) whose non-zero exit was logged as an error
  procExit,      \* exit code of the server process, UNDEF while it runs
  sigLog,        \* the effects of the SIGINT handler, in program order
  discarded      \* history: the carry-over the last close handler threw away

vars == <<clients, socks, rx, procs, currentIndex, leftover, shuttingDown, switching,
          stream, frames, passes, errLog, procExit, sigLog, discarded>>

netVars == <<clients, socks, rx>>
ffVars == <<procs, currentIndex, leftover, switching, stream, frames, errLog, discarded>>

\* a socket no connection has been accepted on yet
NoSock == [st |-> "idle", cols |-> UNDEF, rows |-> UNDEF, mode |-> UNDEF,
           wlen |-> 0, out |-> <<>>]

\* sock.destroyed
Destroyed(rec) == rec.st \in {"destroyed", "closed"}

\* JS truthiness of a number-or-undefined (!c.cols is its negation)
Truthy(n) == n # UNDEF /\ n # 0

\* clients.delete(c)
SetDelete(cs, c) == SelectSeq(cs, LAMBDA x : x # c)

\* clients.add(c)
SetAdd(cs, c) == IF \E i \in 1..Len(cs) : cs[i] = c THEN cs ELSE Append(cs, c)

\* c.write(data): an open socket buffers the data; a write after end() or after
\* destroy() does not throw, delivers nothing and destroys the socket
SockWrite(rec, tag, fid, data) ==
  LET entry == [tag |-> tag, fid |-> fid, data |-> data, ok |-> rec.st = "open"]
  IN IF rec.st = "open"
       THEN [rec EXCEPT !.out = Append(@, entry), !.wlen = @ + Len(data)]
       ELSE [rec EXCEPT !.out = Append(@, entry),
                        !.st = IF @ = "ended" THEN "destroyed" ELSE @]

\* ESC + "[?25h" + NL
CursorRestore == <<ESC, 91, 63, 50, 53, 104, NL>>
\* ESC + "[2J" + ESC + "[H" + ESC + "[?25l"
ClearHomeHide == <<ESC, 91, 50, 74, ESC, 91, 72, ESC, 91, 63, 50, 53, 108>>
NawsRequest == <<IAC, DO, NAWS>>

Running == procExit = UNDEF

\* the decoder `ff` refers to
ff == procs[Len(procs)]

\* ---------------------------------------------------- decoder side
\* mutant: the broadcast loop without the writableLength test
BroadcastOne_NoDrop(S, c, frame, fid, throws) ==
  LET rec == S.socks[c]
  IN IF Destroyed(rec) THEN S
     ELSE IF ~Truthy(rec.cols) \/ ~Truthy(rec.rows) THEN S
     ELSE IF throws
       THEN [clients |-> SetDelete(S.clients, c),
             socks |-> [S.socks EXCEPT ![c].st = "destroyed"]]
       ELSE [clients |-> S.clients,
             socks |-> [S.socks EXCEPT ![c] =
                          SockWrite(rec, "frame", fid,
                            renderFrameForClient(frame, rec.cols, rec.rows, rec.mode))]]

\* mutant: the rendered frame is written twice
BroadcastOne_Twice(S, c, frame, fid, throws) ==
  LET rec == S.socks[c]
      rendered == renderFrameForClient(frame, rec.cols, rec.rows, rec.mode)
  IN IF Destroyed(rec) THEN S
     ELSE IF ~Truthy(rec.cols) \/ ~Truthy(rec.rows) THEN S
     ELSE IF rec.wlen > DropIfBufferedOver THEN S
     ELSE IF throws
       THEN [clients |-> SetDelete(S.clients, c),
             socks |-> [S.socks EXCEPT ![c].st = "destroyed"]]
       ELSE [clients |-> S.clients,
             socks |-> [S.socks EXCEPT ![c] =
                          SockWrite(SockWrite(rec, "frame", fid, rendered),
                                    "frame", fid, rendered)]]

\* mutant: the buffer may grow to twice the threshold before frames are dropped
BroadcastOne_DropDouble(S, c, frame, fid, throws) ==
  LET rec == S.socks[c]
  IN IF Destroyed(rec) THEN S
     ELSE IF ~Truthy(rec.cols) \/ ~Truthy(rec.rows) THEN S
     ELSE IF rec.wlen > 2 * DropIfBufferedOver THEN S
     ELSE IF throws
       THEN [clients |-> SetDelete(S.clients, c),
             socks |-> [S.socks EXCEPT ![c].st = "destroyed"]]
       ELSE [clients |-> S.clients,
             socks |-> [S.socks EXCEPT ![c] =
                          SockWrite(rec, "frame", fid,
                            renderFrameForClient(frame, rec.cols, rec.rows, rec.mode))]]

\* mutant: the broadcast loop without the test of cols and rows
BroadcastOne_NoGeoTest(S, c, frame, fid, throws) ==
  LET rec == S.socks[c]
  IN IF Destroyed(rec) THEN S
     ELSE IF rec.wlen > DropIfBufferedOver THEN S
     ELSE IF throws
       THEN [clients |-> SetDelete(S.clients, c),
             socks |-> [S.socks EXCEPT ![c].st = "destroyed"]]
       ELSE [clients |-> S.clients,
             socks |-> [S.socks EXCEPT ![c] =
                          SockWrite(rec, "frame", fid,
                            renderFrameForClient(frame, rec.cols, rec.rows, rec.mode))]]

\* the body of the broadcast loop for client c and one frame; S = [clients, socks]
BroadcastOne(S, c, frame, fid, throws) ==
  LET rec == S.socks[c]
  IN IF Destroyed(rec) THEN S
     ELSE IF ~Truthy(rec.cols) \/ ~Truthy(rec.rows) THEN S
     ELSE IF rec.wlen > DropIfBufferedOver THEN S
     ELSE IF throws
       THEN [clients |-> SetDelete(S.clients, c),
             socks |-> [S.socks EXCEPT ![c].st = "destroyed"]]
       ELSE [clients |-> S.clients,
             socks |-> [S.socks EXCEPT ![c] =
                          SockWrite(rec, "frame", fid,
                            renderFrameForClient(frame, rec.cols, rec.rows, rec.mode))]]

RECURSIVE BroadcastFrom_Abort(_, _, _, _, _)
\* mutant: a throwing render or write ends the pass (no try/catch inside the loop)
BroadcastFrom_Abort(S, cs, frame, fid, failing) ==
  IF cs = <<>> THEN S
  ELSE LET S1 == BroadcastOne(S, Head(cs), frame, fid, Head(cs) \in failing)
       IN IF Head(cs) \in failing /\ S1 # S THEN S1
          ELSE BroadcastFrom_Abort(S1, Tail(cs), frame, fid, failing)

RECURSIVE BroadcastFrom(_, _, _, _, _)
\* for (const c of clients): cs is what is left of the iteration order
BroadcastFrom(S, cs, frame, fid, failing) ==
  IF cs = <<>> THEN S
  ELSE BroadcastFrom(BroadcastOne(S, Head(cs), frame, fid, Head(cs) \in failing),
                     Tail(cs), frame, fid, failing)

\* what a pass finds when it starts: per client, is it registered, the state of
\* its socket, is its geometry known, is its output buffer over the threshold
PassView(S) ==
  [c \in Sock |->
     [reg |-> \E i \in 1..Len(S.clients) : S.clients[i] = c,
      st |-> S.socks[c].st,
      negotiated |-> Truthy(S.socks[c].cols) /\ Truthy(S.socks[c].rows),
      over |-> S.socks[c].wlen > DropIfBufferedOver]]

RECURSIVE FrameLoop_Gt(_, _, _, _)
\* mutant: while (data.length > bytesPerFrame)
FrameLoop_Gt(D, run, fail, n) ==
  IF Len(D.data) <= bytesPerFrame THEN D
  ELSE LET frame == SubSeq(D.data, 1, bytesPerFrame)
           rest == SubSeq(D.data, bytesPerFrame + 1, Len(D.data))
           fid == <<run, Len(D.frames)>>
           failing == {c \in Sock : <<n, c>> \in fail}
           S2 == BroadcastFrom(D.S, D.S.clients, frame, fid, failing)
       IN FrameLoop_Gt([S |-> S2, data |-> rest,
                        frames |-> Append(D.frames, frame),
                        passes |-> Append(D.passes,
                                     [fid |-> fid, pre |-> PassView(D.S), failing |-> failing])],
                       run, fail, n + 1)

RECURSIVE FrameLoop(_, _, _, _)
\* while (data.length >= bytesPerFrame): D = [S, data, frames, passes];
\* fail is the set of <<pass, client>> whose render or write throws
FrameLoop(D, run, fail, n) ==
  IF Len(D.data) < bytesPerFrame THEN D
  ELSE LET frame == SubSeq(D.data, 1, bytesPerFrame)
           rest == SubSeq(D.data, bytesPerFrame + 1, Len(D.data))
           fid == <<run, Len(D.frames)>>
           failing == {c \in Sock : <<n, c>> \in fail}
           S2 == BroadcastFrom(D.S, D.S.clients, frame, fid, failing)
       IN FrameLoop([S |-> S2, data |-> rest,
                     frames |-> Append(D.frames, frame),
                     passes |-> Append(D.passes,
                                  [fid |-> fid, pre |-> PassView(D.S), failing |-> failing])],
                    run, fail, n + 1)

\* ff.stdout.on("data", chunk)
FfData(chunk, fail) ==
  /\ Running
  /\ ff.st = "running"
  /\ Len(chunk) > 0
  /\ Len(stream) + Len(chunk) <= MaxFrames * bytesPerFrame
  /\ LET data == IF Len(leftover) # 0 THEN leftover \o chunk ELSE chunk
         D == FrameLoop([S |-> [clients |-> clients, socks |-> socks], data |-> data,
                         frames |-> frames, passes |-> <<>>],
                        Len(procs), fail, 1)
     IN /\ clients' = D.S.clients
        /\ socks' = D.S.socks
        /\ frames' = D.frames
        /\ passes' = D.passes
        /\ leftover' = D.data
  /\ stream' = stream \o chunk
  /\ UNCHANGED <<rx, procs, currentIndex, shuttingDown, switching, errLog, procExit, sigLog,
                 discarded>>

\* the decoder process ends (its source is exhausted, or it fails) with exit code `code`
FfExit(code) ==
  /\ Running
  /\ ff.st = "running"
  /\ procs' = [procs EXCEPT ![Len(procs)] = [@ EXCEPT !.st = "exited", !.code = code]]
  /\ passes' = <<>>
  /\ UNCHANGED <<netVars, currentIndex, leftover, shuttingDown, switching, stream, frames,
                 errLog, procExit, sigLog, discarded>>

\* mutant: the cursor is advanced without the wrap
playNext_NoWrap(P) ==
  [procs |-> Append(P.procs, [item |-> P.currentIndex, st |-> "running", code |-> UNDEF]),
   currentIndex |-> P.currentIndex + 1]

\* playNext(): P = [procs, currentIndex]
playNext(P) ==
  [procs |-> Append(P.procs, [item |-> P.currentIndex, st |-> "running", code |-> UNDEF]),
   currentIndex |-> (P.currentIndex + 1) % PlaylistLen]

\* mutant: a non-zero exit code ends the server instead of advancing the playlist
FfClose_Fatal ==
  /\ Running
  /\ ff.st = "exited"
  /\ Len(procs) < MaxSpawn
  /\ errLog' = IF ff.code # 0 /\ ~shuttingDown THEN errLog \cup {Len(procs)} ELSE errLog
  /\ leftover' = <<>>
  /\ discarded' = leftover
  /\ LET closed == [procs EXCEPT ![Len(procs)].st = "closed"]
     IN IF shuttingDown \/ switching \/ ff.code # 0
          THEN /\ procs' = closed
               /\ procExit' = IF ff.code # 0 /\ ~shuttingDown THEN 1 ELSE procExit
               /\ UNCHANGED <<currentIndex, stream, frames>>
          ELSE LET P == playNext([procs |-> closed, currentIndex |-> currentIndex])
               IN /\ procs' = P.procs
                  /\ currentIndex' = P.currentIndex
                  /\ stream' = <<>>
                  /\ frames' = <<>>
                  /\ procExit' = procExit
  /\ switching' = IF shuttingDown \/ switching THEN switching ELSE FALSE
  /\ passes' = <<>>
  /\ UNCHANGED <<netVars, shuttingDown, sigLog>>

\* mutant: the close handler keeps the carry-over
FfClose_KeepLeftover ==
  /\ Running
  /\ ff.st = "exited"
  /\ Len(procs) < MaxSpawn
  /\ errLog' = IF ff.code # 0 /\ ~shuttingDown THEN errLog \cup {Len(procs)} ELSE errLog
  /\ leftover' = leftover
  /\ discarded' = <<>>
  /\ LET closed == [procs EXCEPT ![Len(procs)].st = "closed"]
     IN IF shuttingDown \/ switching
          THEN /\ procs' = closed
               /\ UNCHANGED <<currentIndex, stream, frames>>
          ELSE LET P == playNext([procs |-> closed, currentIndex |-> currentIndex])
               IN /\ procs' = P.procs
                  /\ currentIndex' = P.currentIndex
                  /\ stream' = <<>>
                  /\ frames' = <<>>
  /\ switching' = IF shuttingDown \/ switching THEN switching ELSE FALSE
  /\ passes' = <<>>
  /\ UNCHANGED <<netVars, shuttingDown, procExit, sigLog>>

\* child.on("close") of startFfmpeg, then ff.on("close") of attachFfmpegHandlers
FfClose ==
  /\ Running
  /\ ff.st = "exited"
  /\ Len(procs) < MaxSpawn
  /\ errLog' = IF ff.code # 0 /\ ~shuttingDown THEN errLog \cup {Len(procs)} ELSE errLog
  /\ leftover' = <<>>
  /\ discarded' = leftover
  /\ LET closed == [procs EXCEPT ![Len(procs)].st = "closed"]
     IN IF shuttingDown \/ switching
          THEN /\ procs' = closed
               /\ UNCHANGED <<currentIndex, stream, frames>>
          ELSE LET P == playNext([procs |-> closed, currentIndex |-> currentIndex])
               IN /\ procs' = P.procs
                  /\ currentIndex' = P.currentIndex
                  /\ stream' = <<>>
                  /\ frames' = <<>>
  /\ switching' = IF shuttingDown \/ switching THEN switching ELSE FALSE
  /\ passes' = <<>>
  /\ UNCHANGED <<netVars, shuttingDown, procExit, sigLog>>

\* ff.on("error"): log, process.exit(1)
FfError ==
  /\ Running
  /\ ff.st \in {"running", "exited"}
  /\ procExit' = 1
  /\ passes' = <<>>
  /\ UNCHANGED <<netVars, ffVars, shuttingDown, sigLog>>

\* ---------------------------------------------------- client side
\* mutant: the screen is cleared before the window size is asked for
Accept_ClearFirst(s) ==
  /\ Running
  /\ socks[s].st = "idle"
  /\ clients' = SetAdd(clients, s)
  /\ socks' = [socks EXCEPT ![s] =
       SockWrite(SockWrite([NoSock EXCEPT !.st = "open", !.mode = MODE_DEFAULT],
                           "init", <<>>, ClearHomeHide),
                 "naws", <<>>, NawsRequest)]
  /\ passes' = <<>>
  /\ UNCHANGED <<rx, ffVars, shuttingDown, procExit, sigLog>>

\* net.createServer callback: a connection is accepted on socket s
Accept(s) ==
  /\ Running
  /\ socks[s].st = "idle"
  /\ clients' = SetAdd(clients, s)
  /\ socks' = [socks EXCEPT ![s] =
       SockWrite(SockWrite([NoSock EXCEPT !.st = "open", !.mode = MODE_DEFAULT],
                           "naws", <<>>, NawsRequest),
                 "init", <<>>, ClearHomeHide)]
  /\ passes' = <<>>
  /\ UNCHANGED <<rx, ffVars, shuttingDown, procExit, sigLog>>

\* the quit branch of the data handler: if (!sock.destroyed) write; sock.end()
QuitSock(rec) ==
  LET w == IF Destroyed(rec) THEN rec ELSE SockWrite(rec, "restore", <<>>, CursorRestore)
  IN [w EXCEPT !.st = IF @ = "open" THEN "ended" ELSE @]

\* sock.on("data", data)
SockData(s, data) ==
  /\ Running
  /\ socks[s].st \in {"open", "ended"}
  /\ Len(rx[s]) < MaxIn
  /\ LET rec == socks[s]
         geo == parseNAWS([cols |-> rec.cols, rows |-> rec.rows], data)
         r1 == [rec EXCEPT !.cols = geo.cols, !.rows = geo.rows]
         r2 == IF shouldToggle(data)
                 THEN [r1 EXCEPT !.mode = IF @ = 2 THEN 1 ELSE 2] ELSE r1
         r3 == IF shouldQuit(data) THEN QuitSock(r2) ELSE r2
     IN socks' = [socks EXCEPT ![s] = r3]
  /\ rx' = [rx EXCEPT ![s] = Append(@, data)]
  /\ passes' = <<>>
  /\ UNCHANGED <<clients, ffVars, shuttingDown, procExit, sigLog>>

\* sock.on("close"): the connection is gone (closed by the peer, finished after
\* end(), or destroyed by the server)
SockClose(s) ==
  /\ Running
  /\ socks[s].st \in {"open", "ended", "destroyed"}
  /\ clients' = SetDelete(clients, s)
  /\ socks' = [socks EXCEPT ![s].st = "closed"]
  /\ passes' = <<>>
  /\ UNCHANGED <<rx, ffVars, shuttingDown, procExit, sigLog>>

\* sock.on("error"): the socket fails; its close event follows
SockError(s) ==
  /\ Running
  /\ socks[s].st \in {"open", "ended"}
  /\ clients' = SetDelete(clients, s)
  /\ socks' = [socks EXCEPT ![s].st = "destroyed"]
  /\ passes' = <<>>
  /\ UNCHANGED <<rx, ffVars, shuttingDown, procExit, sigLog>>

\* the peer reads: the socket's buffered output shrinks to n bytes
Drain(s, n) ==
  /\ Running
  /\ socks[s].st \in {"open", "ended"}
  /\ n >= 0
  /\ n < socks[s].wlen
  /\ socks' = [socks EXCEPT ![s].wlen = n]
  /\ passes' = <<>>
  /\ UNCHANGED <<clients, rx, ffVars, shuttingDown, procExit, sigLog>>

\* ------------------------------------------------------- shutdown
RECURSIVE RestoreAll_FirstOnly(_, _)
\* mutant: the loop stops after the first client it has written to
RestoreAll_FirstOnly(G, cs) ==
  IF cs = <<>> THEN G
  ELSE LET c == Head(cs)
           rec == G.socks[c]
       IN IF Destroyed(rec) THEN RestoreAll_FirstOnly(G, Tail(cs))
          ELSE [socks |-> [G.socks EXCEPT ![c] =
                             SockWrite(rec, "restore", <<>>, CursorRestore)],
                log |-> Append(G.log, <<"write", c>>)]

RECURSIVE RestoreAll(_, _)
\* for (const c of clients) if (!c.destroyed) c.write(ESC + "[?25h" + NL);
\* G = [socks, log]
RestoreAll(G, cs) ==
  IF cs = <<>> THEN G
  ELSE LET c == Head(cs)
           rec == G.socks[c]
       IN RestoreAll(
            IF Destroyed(rec) THEN G
            ELSE [socks |-> [G.socks EXCEPT ![c] =
                               SockWrite(rec, "restore", <<>>, CursorRestore)],
                  log |-> Append(G.log, <<"write", c>>)],
            Tail(cs))

\* mutant: the handler kills the decoder but neither sets the flag nor exits
Sigint_NoFlagNoExit ==
  /\ Running
  /\ sigLog = <<>>
  /\ LET G1 == RestoreAll([socks |-> socks, log |-> <<>>], clients)
         killed == [procs EXCEPT ![Len(procs)] =
                      IF @.st = "running" THEN [@ EXCEPT !.st = "exited", !.code = UNDEF] ELSE @]
     IN /\ socks' = G1.socks
        /\ procs' = killed
        /\ sigLog' = G1.log \o << <<"kill">> >>
  /\ passes' = <<>>
  /\ UNCHANGED <<clients, rx, currentIndex, leftover, switching, stream, frames,
                 errLog, shuttingDown, procExit, discarded>>

\* process.on("SIGINT"): the statements of the handler in program order; each
\* appends its effect to the log
Sigint ==
  /\ Running
  /\ LET G0 == [socks |-> socks, log |-> << <<"shuttingDown">> >>]
         G1 == RestoreAll(G0, clients)
         killed == [procs EXCEPT ![Len(procs)] =
                      IF @.st = "running" THEN [@ EXCEPT !.st = "exited", !.code = UNDEF] ELSE @]
     IN /\ shuttingDown' = TRUE
        /\ socks' = G1.socks
        /\ procs' = killed
        /\ procExit' = 0
        /\ sigLog' = G1.log \o << <<"kill">>, <<"exit">> >>
  /\ passes' = <<>>
  /\ UNCHANGED <<clients, rx, currentIndex, leftover, switching, stream, frames,
                 errLog, discarded>>

\* --------------------------------------------------- initial state
\* the module has been loaded: playNext() has spawned the first decoder and the
\* server listens
Init ==
  /\ clients = <<>>
  /\ socks = [s \in Sock |-> NoSock]
  /\ rx = [s \in Sock |-> <<>>]
  /\ procs = playNext([procs |-> <<>>, currentIndex |-> 0]).procs
  /\ currentIndex = playNext([procs |-> <<>>, currentIndex |-> 0]).currentIndex
  /\ leftover = <<>>
  /\ shuttingDown = FALSE
  /\ switching = FALSE
  /\ stream = <<>>
  /\ frames = <<>>
  /\ passes = <<>>
  /\ errLog = {}
  /\ procExit = UNDEF
  /\ sigLog = <<>>
  /\ discarded = <<>>

\* ------------------------------------------------- inputs and Next
\* the 9 bytes a client sends to report a w x h window
NawsSeq(w, h) == <<IAC, SB, NAWS, w \div 256, w % 256, h \div 256, h % 256, IAC, SE>>

\* all byte sequences over bs of length lo..hi
SeqsOf(bs, lo, hi) == UNION {[1..n -> bs] : n \in lo..hi}

\* what a decoder may deliver in one stdout data event
PixelBytes == {0, 200}
Chunks == SeqsOf(PixelBytes, 1, MaxFrames * bytesPerFrame)

\* which render/write calls of one data event throw, as <<pass, client>>: none,
\* any single one, or those of both clients in the first pass
Fails == {{}} \cup {{p} : p \in (1..MaxFrames) \X Sock} \cup {{<<1, c>> : c \in Sock}}

\* what the clients of the server-wide specifications send: a window size followed
\* by "m", or "q"
ClientData == {NawsSeq(2, 2) \o <<109>>, <<113>>}

\* -- the server with two clients and one decoder run of equal pixels
Next ==
  \/ \E n \in 1..(MaxFrames * bytesPerFrame), fail \in Fails :
        FfData([i \in 1..n |-> 200], fail)
  \/ \E s \in Sock : Accept(s)
  \/ \E s \in Sock, d \in ClientData : SockData(s, d)
  \/ \E s \in Sock : SockClose(s)
  \/ \E s \in Sock : Drain(s, 0)

Spec == Init /\ [][Next]_vars

\* -- the frame cutter: every chunking of every stream, decoder after decoder
NextDemux ==
  \/ \E chunk \in Chunks : FfData(chunk, {})
  \/ FfExit(0)
  \/ FfClose

SpecDemux == Init /\ [][NextDemux]_vars

\* -- the decoder's life and the shutdown, clients connected, no decoder output
NextLife ==
  \/ \E code \in {0, 1} : FfExit(code)
  \/ FfClose
  \/ FfError
  \/ Sigint
  \/ \E s \in Sock : Accept(s)
  \/ \E s \in Sock, d \in ClientData : SockData(s, d)
  \/ \E s \in Sock : SockClose(s)
  \/ \E s \in Sock : SockError(s)

SpecLife == Init /\ [][NextLife]_vars

\* -- the socket data handler of one client, fed a catalogue of chunks
Naws8024 == NawsSeq(80, 24)

InData ==
  {NawsSeq(d[1], d[2]) :
     d \in {<<80, 24>>, <<113, 24>>, <<80, 81>>, <<0, 24>>, <<80, 0>>, <<300, 50>>}}
  \cup {[Naws8024 EXCEPT ![p] = b] : p \in 1..9, b \in {0, 113, 241, 255}}
  \cup {SubSeq(Naws8024, 1, k) : k \in 1..8}
  \cup {SubSeq(Naws8024, k + 1, 9) : k \in 1..8}
  \cup {<<113>>, <<81>>, <<109>>, <<120>>, <<IAC, 113>>, <<195, 113>>, <<240, 113>>,
        <<120, 13, NL>>, <<109, 109>>, <<77, 113>>}
  \cup {<<120>> \o Naws8024, Naws8024 \o <<113>>, Naws8024 \o NawsSeq(100, 30),
        Naws8024 \o NawsSeq(0, 30)}

NextIn ==
  \/ Accept(1)
  \/ \E d \in InData : SockData(1, d)
  \/ SockClose(1)

SpecIn == Init /\ [][NextIn]_vars

\* -- rendering: one client reports a window once, toggles its mode and reads;
\* the decoder delivers whole frames, dark or bright
FitData == {NawsSeq(w, h) : w \in 1..MaxCols, h \in 1..MaxRows}

FrameChunks ==
  UNION {{Concat([k \in 1..n |-> [i \in 1..bytesPerFrame |-> f[k]]]) :
            f \in [1..n -> PixelBytes]} : n \in 1..MaxFrames}

NextFit ==
  \/ Accept(1)
  \/ \E d \in FitData : rx[1] = <<>> /\ SockData(1, d)
  \/ rx[1] # <<>> /\ SockData(1, <<109>>)
  \/ \E chunk \in FrameChunks : FfData(chunk, {})
  \/ Drain(1, 0)

SpecFit == Init /\ [][NextFit]_vars

\* ============================================================ claims

\* the frames the stdout data handler has cut so far are the consecutive
\* bytesPerFrame-byte blocks of what the decoder has delivered, and the carry-over
\* is the rest
Blocks(bs) ==
  [k \in 1..(Len(bs) \div bytesPerFrame) |->
     SubSeq(bs, (k - 1) * bytesPerFrame + 1, k * bytesPerFrame)]

\* C1: however the decoder's output is split into chunks, frame k handed to the
\* broadcast loop is bytes [k*F, (k+1)*F) of the stream, each frame is F bytes
\* long, and the carry-over is the remaining tail, shorter than F.
C1_FrameReassembly ==
  /\ frames = Blocks(stream)
  /\ \A k \in 1..Len(frames) : Len(frames[k]) = bytesPerFrame
  /\ Len(leftover) < bytesPerFrame
  /\ leftover = SubSeq(stream, Len(frames) * bytesPerFrame + 1, Len(stream))

\* a second decoder has delivered a whole stream of different frames
C1_Witness ==
  /\ Len(procs) > 1
  /\ Len(stream) = MaxFrames * bytesPerFrame
  /\ Len(frames) = MaxFrames
  /\ frames[1] # frames[2]
  /\ frames[1][1] # frames[1][2]

\* client c was handed frame fid by a write call
Written(sk, c, fid) ==
  \E j \in 1..Len(sk[c].out) : sk[c].out[j].tag = "frame" /\ sk[c].out[j].fid = fid

\* the write calls of client c for frame fid
WritesOf(sk, c, fid) ==
  {j \in 1..Len(sk[c].out) : sk[c].out[j].tag = "frame" /\ sk[c].out[j].fid = fid}

\* what the broadcast loop tests before it renders for a client
Eligible(v) == v.reg /\ v.st \notin {"destroyed", "closed"} /\ v.negotiated /\ ~v.over

InClients(cs, c) == \E i \in 1..Len(cs) : cs[i] = c

\* C2: in every broadcast pass a registered client whose buffer is over the
\* threshold gets no write for the frame, nothing is queued for it and it stays
\* registered; every live negotiated client at or under the threshold whose
\* render and write do not throw gets the frame in that pass, exactly once.
C2_BackpressureIsolation ==
  [][\A i \in 1..Len(passes') : \A c \in Sock :
       LET p == passes'[i]
       IN /\ (p.pre[c].reg /\ p.pre[c].over) =>
               /\ WritesOf(socks', c, p.fid) = {}
               /\ InClients(clients', c)
               /\ i = 1 => socks'[c].wlen = socks[c].wlen /\ socks'[c].out = socks[c].out
          /\ (Eligible(p.pre[c]) /\ c \notin p.failing) =>
               /\ Cardinality(WritesOf(socks', c, p.fid)) = 1
               /\ p.pre[c].st = "open" =>
                    \A j \in WritesOf(socks', c, p.fid) : socks'[c].out[j].ok]_vars

\* a pass skipped a live negotiated client over the threshold and wrote to the
\* other, and the skipped client was written the following frame
C2_Witness ==
  /\ Len(passes) = 1
  /\ \E c, d \in Sock :
       /\ c # d
       /\ Len(frames) = 2
       /\ ~Written(socks, c, <<1, 0>>)
       /\ Written(socks, d, <<1, 0>>)
       /\ Written(socks, c, <<1, 1>>)
       /\ passes[1].fid = <<1, 1>>
       /\ passes[1].pre[d].over /\ passes[1].pre[d].reg
       /\ InClients(clients, d)
       /\ ~Written(socks, d, <<1, 1>>)

\* C3: when render or write throws for a client in a pass, its socket is destroyed
\* and it is removed from the registry; every other eligible client is written the
\* frame; and every frame of the chunk gets its pass.
C3_FailureIsolation ==
  [][/\ Len(stream') > Len(stream) => Len(passes') = Len(frames') - Len(frames)
     /\ \A i \in 1..Len(passes') : \A c \in Sock :
          LET p == passes'[i]
          IN /\ (Eligible(p.pre[c]) /\ c \in p.failing) =>
                  /\ socks'[c].st = "destroyed"
                  /\ ~InClients(clients', c)
                  /\ WritesOf(socks', c, p.fid) = {}
             /\ (Eligible(p.pre[c]) /\ c \notin p.failing) =>
                  WritesOf(socks', c, p.fid) # {}]_vars

\* one chunk held two frames; the first client's render threw in the first pass,
\* the other client was written both frames
C3_Witness ==
  /\ Len(passes) = 2
  /\ \E c, d \in Sock :
       /\ c # d
       /\ Eligible(passes[1].pre[c]) /\ c \in passes[1].failing
       /\ socks[c].st = "destroyed"
       /\ Written(socks, d, passes[1].fid)
       /\ Written(socks, d, passes[2].fid)

\* C4: the k-th decoder spawned plays item k mod PlaylistLen, the cursor is the
\* number of decoders spawned mod PlaylistLen, every decoder but the last has had
\* its close event, and at most one decoder process is active.
C4_PlaylistSingleDecoder ==
  /\ \A k \in 1..Len(procs) : procs[k].item = (k - 1) % PlaylistLen
  /\ currentIndex = Len(procs) % PlaylistLen
  /\ \A k \in 1..(Len(procs) - 1) : procs[k].st = "closed"
  /\ Cardinality({k \in 1..Len(procs) : procs[k].st = "running"}) <= 1

\* the playlist has wrapped: after PlaylistLen stream ends item 0 plays again
C4_Witness ==
  /\ ~shuttingDown
  /\ Len(procs) = PlaylistLen + 1
  /\ procs[Len(procs)].item = 0
  /\ procs[Len(procs)].st = "running"
  /\ procs[PlaylistLen].item = PlaylistLen - 1

\* the close handlers run for the decoder ff in this step
CloseHandled == ff.st = "exited" /\ procs'[Len(procs)].st = "closed"

\* C5 as stated: a non-zero exit of the decoder while not shutting down is logged,
\* ends the server with a non-zero exit code, and no further decoder is spawned.
C5_NonZeroExitFatal ==
  [][(CloseHandled /\ ff.code # 0 /\ ~shuttingDown) =>
       /\ Len(procs) \in errLog'
       /\ procExit' # UNDEF /\ procExit' # 0
       /\ Len(procs') = Len(procs)]_vars

\* C5 amended: a non-zero exit of the decoder while not shutting down is logged,
\* the server keeps running and the decoder of the next playlist item is spawned
\* as after a zero exit; the server exits with code 1 only on the decoder's error
\* event, which spawns nothing and logs no exit.
C5_NonZeroExitAdvances ==
  [][/\ (CloseHandled /\ ff.code # 0 /\ ~shuttingDown) =>
          /\ Len(procs) \in errLog'
          /\ procExit' = UNDEF
          /\ Len(procs') = Len(procs) + 1
          /\ procs'[Len(procs')] = [item |-> currentIndex, st |-> "running", code |-> UNDEF]
          /\ currentIndex' = (currentIndex + 1) % PlaylistLen
     /\ (CloseHandled /\ ff.code = 0) => (errLog' = errLog /\ Len(procs') = Len(procs) + 1)
     /\ (procExit # 1 /\ procExit' = 1) =>
          (procs' = procs /\ errLog' = errLog /\ currentIndex' = currentIndex)]_vars

\* a decoder exited with code 1, the exit was logged, and the next item plays
C5_Witness ==
  /\ procExit = UNDEF
  /\ \E k \in errLog :
       /\ procs[k].code = 1
       /\ k < Len(procs)
       /\ procs[k + 1].item = (procs[k].item + 1) % PlaylistLen
       /\ procs[Len(procs)].st = "running"

\* index of the first occurrence of e in log (0 when absent)
Pos(log, e) ==
  IF \E i \in 1..Len(log) : log[i] = e
    THEN CHOOSE i \in 1..Len(log) : log[i] = e /\ \A j \in 1..(i - 1) : log[j] # e
    ELSE 0

\* C6: the shutdown handler sets the flag before it kills the decoder, and once
\* it has run no decoder is spawned and the playlist cursor does not move.
C6_ShutdownSuppressesRestart ==
  /\ [](sigLog # <<>> =>
          /\ shuttingDown
          /\ Pos(sigLog, <<"shuttingDown">>) > 0
          /\ Pos(sigLog, <<"shuttingDown">>) < Pos(sigLog, <<"kill">>))
  /\ [][sigLog # <<>> => (Len(procs') = Len(procs) /\ currentIndex' = currentIndex)]_vars

\* the handler ran while a decoder was running: the decoder is killed, its close
\* event has not been handled, and no decoder follows it
C6_Witness ==
  /\ sigLog # <<>>
  /\ shuttingDown
  /\ Len(procs) > 1
  /\ ff.st = "exited" /\ ff.code = UNDEF

RestoreEntry(ok) == [tag |-> "restore", fid |-> <<>>, data |-> CursorRestore, ok |-> ok]

\* C7: the shutdown handler writes the cursor-restore sequence to exactly the
\* registered clients whose socket is not destroyed, all of it before the kill,
\* the kill before the exit, and the exit code is 0.
C7_ShutdownCursorRestore ==
  [][(sigLog = <<>> /\ sigLog' # <<>>) =>
       /\ procExit' = 0
       /\ Pos(sigLog', <<"kill">>) > 0
       /\ Pos(sigLog', <<"kill">>) < Pos(sigLog', <<"exit">>)
       /\ \A c \in Sock :
            IF InClients(clients, c) /\ ~Destroyed(socks[c])
              THEN /\ Pos(sigLog', <<"write", c>>) > 0
                   /\ Pos(sigLog', <<"write", c>>) < Pos(sigLog', <<"kill">>)
                   /\ socks'[c].out = Append(socks[c].out, RestoreEntry(socks[c].st = "open"))
              ELSE /\ Pos(sigLog', <<"write", c>>) = 0
                   /\ socks'[c].out = socks[c].out]_vars

\* the handler ran with two live registered clients
C7_Witness ==
  /\ procExit = 0
  /\ Len(clients) = 2
  /\ Pos(sigLog, <<"write", 1>>) > 0
  /\ Pos(sigLog, <<"write", 2>>) > 0
  /\ socks[1].out[Len(socks[1].out)].tag = "restore"
  /\ socks[2].out[Len(socks[2].out)].ok

\* the latest data event of socket s
LastRx(r, s) == r[s][Len(r[s])]

\* socket s handles a data event in this step
DataStep(s) == Len(rx'[s]) = Len(rx[s]) + 1

\* C8 as stated: a complete NAWS sequence delivered as two consecutive chunks,
\* wherever the boundary falls, sets the geometry it reports (80 x 24).
C8_NawsAcrossSeam ==
  \A s \in Sock :
    (/\ Len(rx[s]) = 2
     /\ rx[s][1] # <<>> /\ rx[s][2] # <<>>
     /\ rx[s][1] \o rx[s][2] = Naws8024) =>
      (socks[s].cols = 80 /\ socks[s].rows = 24)

\* chunk d holds the byte-exact sequence that reports a w x h window
HasNaws(d, w, h) ==
  \E i \in 1..(Len(d) - 8) : SubSeq(d, i, i + 8) = NawsSeq(w, h)

\* C9: cols/rows change only in a data event whose chunk holds a byte-exact
\* IAC SB NAWS w w h h IAC SE with w > 0 and h > 0, and then to that w and h.
C9_NawsStrict ==
  [][\A s \in Sock :
       (socks'[s].cols # socks[s].cols \/ socks'[s].rows # socks[s].rows) =>
         /\ DataStep(s)
         /\ socks'[s].cols > 0 /\ socks'[s].rows > 0
         /\ HasNaws(LastRx(rx', s), socks'[s].cols, socks'[s].rows)]_vars

\* a 300 x 50 window survived a sequence with the terminator 255,241
C9_Witness ==
  /\ rx[1] = <<NawsSeq(300, 50), [Naws8024 EXCEPT ![9] = 241]>>
  /\ socks[1].cols = 300
  /\ socks[1].rows = 50

RECURSIVE RemoveNaws(_)
\* d without its byte-exact 9-byte NAWS sequences
RemoveNaws(d) ==
  IF d = <<>> THEN <<>>
  ELSE IF /\ Len(d) >= 9
          /\ d[1] = IAC /\ d[2] = SB /\ d[3] = NAWS /\ d[8] = IAC /\ d[9] = SE
    THEN RemoveNaws(SubSeq(d, 10, Len(d)))
    ELSE <<Head(d)>> \o RemoveNaws(Tail(d))

\* C10 as stated: a data event quits (restore written, connection ended) exactly
\* when a quit key occurs in the chunk outside its negotiation sequences; the
\* bytes of a geometry report never quit.
C10_QuitOutsideNegotiation ==
  [][\A s \in Sock :
       DataStep(s) =>
         ((\E k \in quitKeys : Includes(textFromTelnet(RemoveNaws(LastRx(rx', s))), k))
            <=> Len(socks'[s].out) > Len(socks[s].out))]_vars

\* the stripped text of chunk d holds one of the keys ks
TextHas(d, ks) == \E i \in 1..Len(textFromTelnet(d)) : textFromTelnet(d)[i] \in ks

NewWrites(s) == (Len(socks[s].out) + 1)..Len(socks'[s].out)

\* C12: a connection is accepted with cols and rows unset and mode 2; a frame is
\* written to a session only in a step that starts with its cols and rows both
\* set and positive; a session that has been written a frame has them set.
C12_NoRenderBeforeNegotiation ==
  /\ [](\A s \in Sock :
          (\E j \in 1..Len(socks[s].out) : socks[s].out[j].tag = "frame") =>
            (socks[s].cols > 0 /\ socks[s].rows > 0))
  /\ [][\A s \in Sock :
          /\ (socks[s].st = "idle" /\ socks'[s].st # "idle") =>
               /\ socks'[s].cols = UNDEF
               /\ socks'[s].rows = UNDEF
               /\ socks'[s].mode = 2
          /\ \A j \in NewWrites(s) :
               socks'[s].out[j].tag = "frame" =>
                 (socks[s].cols > 0 /\ socks[s].rows > 0)
          /\ \A i \in 1..Len(passes') :
               (passes'[i].pre[s].reg /\ ~passes'[i].pre[s].negotiated) =>
                 /\ WritesOf(socks', s, passes'[i].fid) = {}
                 /\ socks'[s].st = passes'[i].pre[s].st]_vars

\* a pass wrote the frame to the negotiated client and passed over a connected,
\* drained client that has not reported its window
C12_Witness ==
  /\ Len(passes) = 1
  /\ \E c, d \in Sock :
       /\ c # d
       /\ Written(socks, c, passes[1].fid)
       /\ passes[1].pre[d].reg /\ passes[1].pre[d].st = "open"
       /\ ~passes[1].pre[d].negotiated /\ ~passes[1].pre[d].over
       /\ socks[d].cols = UNDEF
       /\ Len(socks[d].out) = 2

\* the positions of the newlines of bs
NLPos(bs) == {i \in 1..Len(bs) : bs[i] = NL}

\* the position of the k-th newline of bs (0 for k = 0)
NthNL(bs, k) ==
  IF k = 0 THEN 0
  ELSE CHOOSE i \in NLPos(bs) : Cardinality({j \in NLPos(bs) : j <= i}) = k

\* the newline-terminated lines of bs, without their newlines
LinesOf(bs) ==
  [k \in 1..Cardinality(NLPos(bs)) |-> SubSeq(bs, NthNL(bs, k - 1) + 1, NthNL(bs, k) - 1)]

\* a rendered block after its cursor-home prefix ESC [ H
AfterHome(data) == SubSeq(data, 4, Len(data))

\* the number of space characters of a line
SpaceCount(line) == Cardinality({i \in 1..Len(line) : line[i] = 32})

\* a rendered block is rows - 1 newline-terminated lines for a cols x rows window:
\* padY blank lines, outH content lines, blank lines for the rest
Letterboxed(data, cols, rows, mode) ==
  LET fit == computeFit(cols, rows)
      lines == LinesOf(AfterHome(data))
  IN /\ SubSeq(data, 1, 3) = <<ESC, 91, 72>>
     /\ data[Len(data)] = NL
     /\ Len(lines) = rows - 1
     /\ \A k \in 1..Len(lines) :
          IF k <= fit.padY \/ k > fit.padY + fit.outH
            THEN lines[k] = Spaces(cols)
            ELSE /\ SpaceCount(lines[k]) <= cols
                 /\ mode = 1 => Len(lines[k]) = cols
                 /\ mode = 2 => /\ SpaceCount(lines[k]) = cols
                                /\ \E i \in 1..Len(lines[k]) : lines[k][i] = ESC

\* C13: for a session window of cols >= 1 columns and rows >= 2 rows computeFit
\* gives outW >= 1, outH >= 1, outW + 2 padX <= cols and outH + 2 padY <= rows - 1,
\* and every frame written to the session, in either mode, is exactly rows - 1
\* newline-terminated lines: padY blank, outH content, the rest blank.
C13_LetterboxCoverage ==
  /\ [](\A s \in Sock :
          (socks[s].cols >= 1 /\ socks[s].rows >= 2) =>
            LET fit == computeFit(socks[s].cols, socks[s].rows)
            IN /\ fit.outW >= 1 /\ fit.outH >= 1
               /\ fit.outW + 2 * fit.padX <= socks[s].cols
               /\ fit.outH + 2 * fit.padY <= socks[s].rows - 1)
  /\ [][\A s \in Sock : \A j \in NewWrites(s) :
          (socks'[s].out[j].tag = "frame" /\ socks[s].rows >= 2) =>
            Letterboxed(socks'[s].out[j].data, socks[s].cols, socks[s].rows,
                        socks[s].mode)]_vars

\* a 2 x 4 window (one blank line above and one below the single content line)
\* was written a truecolor frame and then, after "m", an ASCII frame
C13_Witness ==
  /\ socks[1].cols = 2 /\ socks[1].rows = 4
  /\ socks[1].mode = 1
  /\ computeFit(2, 4).padY = 1
  /\ Len(socks[1].out) = 4
  /\ socks[1].out[3].tag = "frame" /\ socks[1].out[3].ok
  /\ socks[1].out[4].tag = "frame" /\ socks[1].out[4].ok
  /\ Len(socks[1].out[3].data) > Len(socks[1].out[4].data)

\* C14 as stated: for base resolution 4 x 4 and a 10 x 3 window computeFit gives
\* usable height 2, outW = 2, outH = 2 and padX = 4.
C14_FitScenario ==
  \A s \in Sock :
    (socks[s].cols = 10 /\ socks[s].rows = 3) =>
      LET fit == computeFitB(socks[s].cols, socks[s].rows, 4, 4)
      IN fit.dstH = 2 /\ fit.outW = 2 /\ fit.outH = 2 /\ fit.padX = 4

\* C14 amended: for base resolution 4 x 4 and a 10 x 3 window computeFit gives
\* usable height 2, outW = 4, outH = 2, padX = 3 and padY = 0 (a cell is twice
\* as high as wide, so 4 x 2 cells show the square source).
C14_FitScenarioAsComputed ==
  \A s \in Sock :
    (socks[s].cols = 10 /\ socks[s].rows = 3) =>
      LET fit == computeFitB(socks[s].cols, socks[s].rows, 4, 4)
      IN /\ fit.dstW = 10 /\ fit.dstH = 2
         /\ fit.outW = 4 /\ fit.outH = 2
         /\ fit.padX = 3 /\ fit.padY = 0

\* a session reported a 10 x 3 window and was written a frame
C14_Witness ==
  /\ socks[1].cols = 10 /\ socks[1].rows = 3
  /\ Len(socks[1].out) = 3
  /\ socks[1].out[3].tag = "frame" /\ socks[1].out[3].ok

\* C15: the first write on every accepted socket is IAC DO NAWS, the second is
\* the clear-screen / cursor-home / cursor-hide sequence, both made by the
\* connection callback, and every frame written to the socket comes after them.
C15_HandshakeOrdering ==
  /\ [](\A s \in Sock :
          socks[s].st # "idle" =>
            /\ Len(socks[s].out) >= 2
            /\ socks[s].out[1] =
                 [tag |-> "naws", fid |-> <<>>, data |-> <<IAC, DO, NAWS>>, ok |-> TRUE]
            /\ socks[s].out[2].tag = "init"
            /\ socks[s].out[2].data =
                 <<ESC, 91, 50, 74, ESC, 91, 72, ESC, 91, 63, 50, 53, 108>>
            /\ socks[s].out[2].ok
            /\ \A j \in 1..Len(socks[s].out) : socks[s].out[j].tag = "frame" => j >= 3)
  /\ [][\A s \in Sock :
          (socks[s].st = "idle" /\ socks'[s].st # "idle") =>
            (Len(socks'[s].out) = 2 /\ UNCHANGED <<stream, frames>>)]_vars

\* one client's third write is the first frame; the other, accepted or negotiated
\* after the decoder had delivered it, got the second frame as its third write
C15_Witness ==
  \E c, d \in Sock :
    /\ c # d
    /\ Len(socks[c].out) >= 3 /\ Len(socks[d].out) >= 3
    /\ socks[c].out[3].tag = "frame" /\ socks[c].out[3].fid = <<1, 0>>
    /\ socks[d].out[3].tag = "frame" /\ socks[d].out[3].fid = <<1, 1>>

\* C16: the close handler empties the carry-over, so the partial frame the old
\* decoder left is dropped; the first chunk of a decoder is processed with an
\* empty carry-over; and the first frame cut for a decoder that replaced another
\* is the first bytesPerFrame bytes of its own output.
C16_CarryOverReset ==
  /\ [][/\ CloseHandled => (leftover' = <<>> /\ discarded' = leftover)
        /\ (stream = <<>> /\ stream' # <<>>) => leftover = <<>>
        /\ Len(procs') > Len(procs) =>
             (leftover' = <<>> /\ stream' = <<>> /\ frames' = <<>>)]_vars
  /\ [](frames # <<>> => frames[1] = SubSeq(stream, 1, bytesPerFrame))

\* a decoder ended with a partial frame in the carry-over; the decoder that
\* replaced it has delivered a frame, which is its own first bytes and not the
\* old partial frame completed by them
C16_Witness ==
  /\ Len(procs) > 1
  /\ discarded # <<>>
  /\ Len(frames) >= 1
  /\ frames[1] = SubSeq(stream, 1, bytesPerFrame)
  /\ frames[1] # SubSeq(discarded \o stream, 1, bytesPerFrame)

\* C17 as stated: once the quit branch has written the cursor-restore sequence to
\* a session, no broadcast pass renders a frame for it or calls write with one,
\* also when a decoder chunk is handled before the socket's close event.
C17_QuitEndsFrames ==
  \A s \in Sock : \A j, k \in 1..Len(socks[s].out) :
    (j < k /\ socks[s].out[j].tag = "restore") => socks[s].out[k].tag # "frame"

RECURSIVE Buffered(_, _, _)
\* the bytes the accepted write calls lo..hi of a write log put into the buffer
Buffered(out, lo, hi) ==
  IF hi < lo THEN 0
  ELSE (IF out[hi].ok THEN Len(out[hi].data) ELSE 0) + Buffered(out, lo, hi - 1)

\* the accepted frame writes of a write log
FrameWrites(out) == {j \in 1..Len(out) : out[j].tag = "frame" /\ out[j].ok}

\* the latest of them
LastFrameWrite(out) == CHOOSE j \in FrameWrites(out) : \A k \in FrameWrites(out) : k <= j

\* C18: every frame write finds at most dropIfBufferedOver bytes buffered on its
\* socket, and as long as a frame is the last thing written to a socket its
\* buffer holds at most dropIfBufferedOver bytes plus that frame, whatever the
\* peer has read.
C18_BoundedBuffering ==
  /\ [][\A s \in Sock : \A j \in NewWrites(s) :
          (socks'[s].out[j].tag = "frame" /\ socks'[s].out[j].ok) =>
            socks[s].wlen + Buffered(socks'[s].out, Len(socks[s].out) + 1, j - 1)
              <= DropIfBufferedOver]_vars
  /\ [](\A s \in Sock :
          (/\ FrameWrites(socks[s].out) # {}
           /\ LastFrameWrite(socks[s].out) = Len(socks[s].out)) =>
            socks[s].wlen
              <= DropIfBufferedOver + Len(socks[s].out[Len(socks[s].out)].data))

\* a client that does not read was written a frame that took its buffer over the
\* threshold, and the next frame of the same chunk was not written to it
C18_Witness ==
  /\ Len(passes) = 2
  /\ \E s \in Sock :
       /\ socks[s].st = "open"
       /\ socks[s].wlen > DropIfBufferedOver
       /\ FrameWrites(socks[s].out) # {}
       /\ LastFrameWrite(socks[s].out) = Len(socks[s].out)
       /\ socks[s].out[Len(socks[s].out)].fid = passes[1].fid
       /\ passes[1].pre[s].reg /\ ~passes[1].pre[s].over
       /\ 0 < Buffered(socks[s].out, 1, Len(socks[s].out) - 1)
       /\ ~Written(socks, s, passes[2].fid)

\* frame a was produced before frame b (ids are <<decoder, index>>)
Earlier(a, b) == a[1] < b[1] \/ (a[1] = b[1] /\ a[2] < b[2])

\* C19: the frames written to a session appear in its write log in the order the
\* frame cutter produced them, none twice; a frame is written only in the data
\* event that cut it, and what is written is the rendering of that very frame.
C19_FrameOrder ==
  /\ [](\A s \in Sock : \A j, k \in 1..Len(socks[s].out) :
          (j < k /\ socks[s].out[j].tag = "frame" /\ socks[s].out[k].tag = "frame") =>
            Earlier(socks[s].out[j].fid, socks[s].out[k].fid))
  /\ [][\A s \in Sock : \A j \in NewWrites(s) :
          socks'[s].out[j].tag = "frame" =>
            LET fid == socks'[s].out[j].fid
            IN /\ fid[1] = Len(procs)
               /\ fid[2] >= Len(frames) /\ fid[2] < Len(frames')
               /\ socks'[s].out[j].data =
                    renderFrameForClient(frames'[fid[2] + 1], socks[s].cols,
                                         socks[s].rows, socks[s].mode)]_vars

\* the decoder has produced a dark and a bright frame (or the reverse); the
\* session missed the first and its only frame write is the second, rendered
\* from the second frame's pixels
C19_Witness ==
  /\ Len(frames) = 2
  /\ frames[1] # frames[2]
  /\ Len(socks[1].out) = 3
  /\ socks[1].out[3].tag = "frame"
  /\ socks[1].out[3].fid = <<1, 1>>
  /\ socks[1].out[3].data =
       renderFrameForClient(frames[2], socks[1].cols, socks[1].rows, socks[1].mode)
  /\ socks[1].out[3].data #
       renderFrameForClient(frames[1], socks[1].cols, socks[1].rows, socks[1].mode)

\* C20: the cols and rows of a session are both unset or both in 1..65535; a
\* step that sets one for the first time sets the other; once set they stay set
\* and positive whatever chunks follow.
C20_GeometryInvariant ==
  /\ [](\A s \in Sock :
          \/ socks[s].cols = UNDEF /\ socks[s].rows = UNDEF
          \/ socks[s].cols \in 1..65535 /\ socks[s].rows \in 1..65535)
  /\ [][\A s \in Sock :
          /\ (socks[s].cols = UNDEF /\ socks[s].rows = UNDEF) =>
               (socks'[s].cols = UNDEF <=> socks'[s].rows = UNDEF)
          /\ socks[s].cols \in 1..65535 => socks'[s].cols \in 1..65535
          /\ socks[s].rows \in 1..65535 => socks'[s].rows \in 1..65535]_vars

\* an 80 x 24 window was set; a later report of a 0 x 24 window left it alone
C20_Witness ==
  /\ rx[1] = <<NawsSeq(80, 24), NawsSeq(0, 24)>>
  /\ socks[1].cols = 80
  /\ socks[1].rows = 24

====
